---- MODULE Spec2Model ----
(***************************************************************************)
(* Access-broker subsystem of sshBox: the FastAPI gateway                  *)
(* (api/gateway_fastapi.py), its SQLite connection pool                    *)
(* (api/connection_pool.py) and the session recorder that shares the       *)
(* sessions table (api/sqlite_session_recorder.py).                        *)
(*                                                                         *)
(* Strings are sequences of one-character strings, so that split(':') and  *)
(* int() are computed and not assumed.  Time is a microsecond counter;     *)
(* int(time.time()) is clock \div 1000000.                                 *)
(***************************************************************************)
EXTENDS Integers, Sequences, FiniteSets, TLC

\* ------------------------------------------------------------------ bounds
NumProcs == 2           \* concurrent request-handling threads of the gateway
MaxConnections == 1     \* SQLiteConnectionPool(max_connections=...)
Timeout == 1            \* SQLiteConnectionPool(timeout=...), seconds
MaxSec == 1             \* seconds the clock may advance past StartSec
MaxUsec == 1            \* microsecond ticks modelled inside one second
MaxSessions == 2        \* rows of the sessions table, and provisioner runs
MaxRecordings == 2      \* session_recordings rows counted per session

\* ------------------------------------------------------- program constants
UsecPerSec == 1000000
FreshnessWindow == 300
InitialWarm == 3
StartClock == 1000 * UsecPerSec

\* ---------------------------------------------------------------- strings
Digits == {"0", "1", "2", "3", "4", "5", "6", "7", "8", "9"}

DigitVal(c) ==
  CASE c = "0" -> 0 [] c = "1" -> 1 [] c = "2" -> 2 [] c = "3" -> 3
    [] c = "4" -> 4 [] c = "5" -> 5 [] c = "6" -> 6 [] c = "7" -> 7
    [] c = "8" -> 8 [] c = "9" -> 9

RECURSIVE SplitFrom(_, _)
SplitFrom(s, cur) ==
  IF s = <<>> THEN <<cur>>
  ELSE IF Head(s) = ":" THEN <<cur>> \o SplitFrom(Tail(s), <<>>)
  ELSE SplitFrom(Tail(s), Append(cur, Head(s)))

\* str.split(':')
split(s) == SplitFrom(s, <<>>)

RECURSIVE Join(_)
\* ":".join(parts), the f-string of validate_token and create_invite
Join(parts) ==
  IF Len(parts) = 0 THEN <<>>
  ELSE IF Len(parts) = 1 THEN parts[1]
  ELSE parts[1] \o <<":">> \o Join(Tail(parts))

RECURSIVE LStrip(_)
LStrip(s) == IF s # <<>> /\ Head(s) = " " THEN LStrip(Tail(s)) ELSE s

RECURSIVE RStrip(_)
RStrip(s) ==
  IF s # <<>> /\ s[Len(s)] = " " THEN RStrip(SubSeq(s, 1, Len(s) - 1)) ELSE s

Unsigned(s) == IF s # <<>> /\ Head(s) \in {"+", "-"} THEN Tail(s) ELSE s

\* the digit string int() accepts after stripping blanks and one sign:
\* digits, with single underscores only between digits
IsDigitBody(b) ==
  /\ b # <<>>
  /\ \A i \in 1..Len(b) : b[i] \in Digits \cup {"_"}
  /\ b[1] \in Digits /\ b[Len(b)] \in Digits
  /\ \A i \in 1..(Len(b) - 1) : ~(b[i] = "_" /\ b[i + 1] = "_")

RECURSIVE DigitsValue(_, _)
DigitsValue(b, acc) ==
  IF b = <<>> THEN acc
  ELSE IF Head(b) = "_" THEN DigitsValue(Tail(b), acc)
  ELSE DigitsValue(Tail(b), 10 * acc + DigitVal(Head(b)))

\* int(s) succeeds (does not raise ValueError)
IntOk(s) == IsDigitBody(Unsigned(RStrip(LStrip(s))))

\* int(s), defined when IntOk(s)
IntVal(s) ==
  LET t == RStrip(LStrip(s))
      v == DigitsValue(Unsigned(t), 0)
  IN IF t # <<>> /\ Head(t) = "-" THEN 0 - v ELSE v

\* -------------------------------------------------------------- token codec
GATEWAY_SECRET == <<"k">>
dev == <<"d", "e", "v">>
debug == <<"d", "e", "b", "u", "g">>
secure_shell == <<"s", "e", "c", "u", "r", "e", "-", "s", "h", "e", "l", "l">>
privileged == <<"p", "r", "i", "v", "i", "l", "e", "g", "e", "d">>
allowed_profiles == {dev, debug, secure_shell, privileged}
none == <<"n", "o", "n", "e">>

\* hmac.new(key, msg, sha256).hexdigest(): an ideal MAC, injective in
\* (key, msg) and free of the delimiter
HmacHex(key, msg) ==
  key \o <<"#">> \o [i \in 1..Len(msg) |-> IF msg[i] = ":" THEN "." ELSE msg[i]]

\* characters outside ASCII, on which hmac.compare_digest(str, str)
\* raises TypeError
NonAscii == {"é"}

IsAscii(s) == \A i \in 1..Len(s) : s[i] \notin NonAscii

\* a freshness test that rejects two seconds early
token_expired_early(current_time, token_timestamp) ==
  current_time - token_timestamp > FreshnessWindow - 2

\* if current_time - token_timestamp > 300
token_expired(current_time, token_timestamp) ==
  current_time - token_timestamp > FreshnessWindow

\* a validate_token that does not look at the allow-list
validate_token_try_anyprofile(secret, token, current_time) ==
  LET parts == split(token) IN
  IF Len(parts) # 6 THEN "False"
  ELSE
    LET profile == parts[1]
        ttl_str == parts[2]
        timestamp_str == parts[3]
        signature == parts[6]
        expected_payload == Join(SubSeq(parts, 1, 5))
        expected_signature == HmacHex(secret, expected_payload)
    IN
      IF ~IntOk(ttl_str) THEN "False"
      ELSE IF ~IntOk(timestamp_str) THEN "False"
      ELSE IF token_expired(current_time, IntVal(timestamp_str)) THEN "False"
      ELSE IF ~IsAscii(signature) THEN "TypeError"
      ELSE IF signature = expected_signature THEN "True" ELSE "False"

\* the body of the outer try of validate_token under the configured
\* secret: "True", "False", or the name of the exception that leaves it
validate_token_try(secret, token, current_time) ==
  LET parts == split(token) IN
  IF Len(parts) # 6 THEN "False"
  ELSE
    LET profile == parts[1]
        ttl_str == parts[2]
        timestamp_str == parts[3]
        signature == parts[6]
        expected_payload == Join(SubSeq(parts, 1, 5))
        expected_signature == HmacHex(secret, expected_payload)
    IN
      IF ~IntOk(ttl_str) THEN "False"
      ELSE IF ~IntOk(timestamp_str) THEN "False"
      ELSE IF token_expired(current_time, IntVal(timestamp_str)) THEN "False"
      ELSE IF profile \notin allowed_profiles THEN "False"
      ELSE IF ~IsAscii(signature) THEN "TypeError"
      ELSE IF signature = expected_signature THEN "True" ELSE "False"

\* validate_token without its except Exception clause
validate_token_noexcept(secret, token, current_time) ==
  validate_token_try(secret, token, current_time)

\* validate_token as a whole, for a gateway whose GATEWAY_SECRET is
\* secret: except Exception turns whatever was raised into False
validate_token_under(secret, token, current_time) ==
  IF validate_token_try(secret, token, current_time) = "True" THEN "True" ELSE "False"

validate_token(token, current_time) ==
  validate_token_under(GATEWAY_SECRET, token, current_time) = "True"

RECURSIVE IntToStr(_)
\* str(n) for n >= 0
IntToStr(n) ==
  LET d == CHOOSE c \in Digits : DigitVal(c) = n % 10
  IN IF n < 10 THEN <<d>> ELSE Append(IntToStr(n \div 10), d)

\* str(n)
Str(n) == IF n < 0 THEN <<"-">> \o IntToStr(0 - n) ELSE IntToStr(n)

\* hashlib.sha256(x).hexdigest()[:12]: hexadecimal, so free of the
\* delimiter
Sha256Hex12(x) ==
  <<"h">> \o [i \in 1..Len(x) |-> IF x[i] = ":" THEN "." ELSE x[i]]

\* a create_invite that signs the first three fields only
create_invite_shortpayload(secret, profile, ttl, recipient, notes, now) ==
  LET ts == Str(now)
      recipient_part == IF recipient # <<>> THEN Sha256Hex12(recipient) ELSE none
      notes_part == IF notes # <<>> THEN Sha256Hex12(notes) ELSE none
      payload == Join(<<profile, Str(ttl), ts, recipient_part, notes_part>>)
      sig == HmacHex(secret, Join(<<profile, Str(ttl), ts>>))
  IN payload \o <<":">> \o sig

\* create_invite(secret, profile, ttl, recipient, notes)["token"], made
\* when int(time.time()) is now; an absent or empty recipient or notes
\* is <<>>
create_invite(secret, profile, ttl, recipient, notes, now) ==
  LET ts == Str(now)
      recipient_part == IF recipient # <<>> THEN Sha256Hex12(recipient) ELSE none
      notes_part == IF notes # <<>> THEN Sha256Hex12(notes) ELSE none
      payload == Join(<<profile, Str(ttl), ts, recipient_part, notes_part>>)
      sig == HmacHex(secret, payload)
  IN payload \o <<":">> \o sig

\* a token carrying the signature the gateway expects for its payload
Signed(profile, ttl_str, timestamp_str) ==
  LET payload == Join(<<profile, ttl_str, timestamp_str, none, none>>)
  IN payload \o <<":">> \o HmacHex(GATEWAY_SECRET, payload)

\* ------------------------------------------------------------------- state
VARIABLES
  clock,               \* time.time() / datetime.utcnow(), in microseconds
  sessions,            \* table sessions: session_id -> row
  recordings,          \* table session_recordings: session_id -> number of rows
  metaFiles,           \* session ids whose <id>.json metadata file exists
  pool,                \* SQLiteConnectionPool.pool (a list, popped at the end)
  active_connections,  \* SQLiteConnectionPool.active_connections
  connState,           \* connection object -> "open" | "closed" (or not created)
  th,                  \* per thread: position in its handler and its locals
  bgTasks,             \* BackgroundTasks added by handle_request, not yet run
  containers,          \* session ids whose container box_<id> is running
  redeemCount,         \* token -> number of 200 responses of /request
  invite,              \* the invite a client holds: how it was made, what verify said
  timers,              \* provisioner.py: destroy_task threads started, not yet finished
  purge,               \* the last call of cleanup_old_recordings and how it ended
  drained,             \* history: close_all has been called (the pool keeps no such flag)
  reply                \* what the last call of a reading or recorder method returned

vars == <<clock, sessions, recordings, metaFiles, pool, active_connections,
          connState, th, bgTasks, containers, redeemCount, invite, timers, purge, drained,
          reply>>

poolVars == <<pool, active_connections, connState>>
storeVars == <<sessions, recordings, metaFiles>>
auxVars == <<invite, timers, purge, drained, reply>>

Procs == 1..NumProcs
ConnIds == 1..(MaxConnections + 1)
NoConn == 0
NoExc == 0

Min(a, b) == IF a < b THEN a ELSE b

\* int(time.time())
current_time == clock \div UsecPerSec

\* no invite has been made yet
NoInvite ==
  [stage |-> "none", origin |-> "none", key |-> GATEWAY_SECRET, secret |-> <<>>,
   profile |-> <<>>, token |-> <<>>, issued_at |-> 0, tampered |-> FALSE,
   checked_at |-> 0, result |-> "none"]

\* cleanup_old_recordings has not been called
NoPurge == [outcome |-> "none", days |-> 0, now |-> 0, selected |-> {}, unlinked |-> {}]

\* no such call has been made
NoReply == [op |-> "none", sid |-> 0, value |-> <<>>]

Blank ==
  [pc |-> "idle", op |-> "none", sid |-> 0, token |-> <<>>, profile |-> <<>>,
   ttl |-> 0, info |-> "none", conn |-> NoConn, exc |-> NoExc, start |-> 0,
   resp |-> 0, msg |-> "none", status |-> "None", sessions |-> <<>>]

\* ------------------------------------------------------------------ clock
TickUsec ==
  /\ clock % UsecPerSec < MaxUsec
  /\ clock' = clock + 1
  /\ UNCHANGED <<storeVars, poolVars, th, bgTasks, containers, redeemCount, auxVars>>

TickSec ==
  /\ current_time < (StartClock \div UsecPerSec) + MaxSec
  /\ clock' = (current_time + 1) * UsecPerSec
  /\ UNCHANGED <<storeVars, poolVars, th, bgTasks, containers, redeemCount, auxVars>>

\* -------------------------------------------------------- connection pool
\* __init__ and _initialize_pool: min(3, max_connections) idle connections
InitPool ==
  /\ pool = [i \in 1..Min(InitialWarm, MaxConnections) |-> i]
  /\ active_connections = 0
  /\ connState = [c \in ConnIds |->
                    IF c <= Min(InitialWarm, MaxConnections) THEN "open" ELSE "closed"]

\* sqlite3.connect(...): a new connection object
FreshConn(c) ==
  /\ connState[c] = "closed"
  /\ \A d \in ConnIds : connState[d] = "closed" => c <= d

\* a loop that pops an idle connection without counting it
get_connection_enter_uncounted(start, c) ==
  /\ clock - start < Timeout * UsecPerSec
  /\ \/ /\ pool # <<>>
        /\ c = pool[Len(pool)]
        /\ pool' = SubSeq(pool, 1, Len(pool) - 1)
        /\ UNCHANGED <<connState, active_connections>>
     \/ /\ pool = <<>>
        /\ active_connections < MaxConnections
        /\ FreshConn(c)
        /\ connState' = [connState EXCEPT ![c] = "open"]
        /\ active_connections' = active_connections + 1
        /\ UNCHANGED pool

\* get_connection, one iteration of the loop that obtains connection c
\* for the thread that started waiting at clock value start
get_connection_enter(start, c) ==
  /\ clock - start < Timeout * UsecPerSec
  /\ \/ /\ pool # <<>>
        /\ c = pool[Len(pool)]
        /\ pool' = SubSeq(pool, 1, Len(pool) - 1)
        /\ active_connections' = active_connections + 1
        /\ UNCHANGED connState
     \/ /\ pool = <<>>
        /\ active_connections < MaxConnections
        /\ FreshConn(c)
        /\ connState' = [connState EXCEPT ![c] = "open"]
        /\ active_connections' = active_connections + 1
        /\ UNCHANGED pool

\* a timeout path that gives back a slot it never took
get_connection_timeout_release(start) ==
  /\ clock - start >= Timeout * UsecPerSec
  /\ active_connections' = active_connections - 1
  /\ UNCHANGED <<pool, connState>>

\* get_connection, the loop ends without a connection: TimeoutError
get_connection_timeout(start) ==
  /\ clock - start >= Timeout * UsecPerSec
  /\ UNCHANGED poolVars

\* a finally block that forgets active_connections -= 1 when it returns
\* the connection to the pool
get_connection_exit_nodecrement(c, rollback_ok) ==
  IF ~rollback_ok
  THEN /\ connState' = [connState EXCEPT ![c] = "closed"]
       /\ active_connections' = active_connections - 1
       /\ UNCHANGED pool
  ELSE /\ pool' = Append(pool, c)
       /\ UNCHANGED <<connState, active_connections>>

\* a finally block that puts the connection back whatever rollback did
get_connection_exit_reuse(c, rollback_ok) ==
  /\ IF Len(pool) < MaxConnections
     THEN /\ pool' = Append(pool, c)
          /\ UNCHANGED connState
     ELSE /\ connState' = [connState EXCEPT ![c] = "closed"]
          /\ UNCHANGED pool
  /\ active_connections' = active_connections - 1

\* get_connection, the finally block for connection c; rollback_ok is
\* whether conn.rollback() returned without raising
get_connection_exit(c, rollback_ok) ==
  IF ~rollback_ok
  THEN /\ connState' = [connState EXCEPT ![c] = "closed"]
       /\ active_connections' = active_connections - 1
       /\ UNCHANGED pool
  ELSE /\ IF Len(pool) < MaxConnections
          THEN /\ pool' = Append(pool, c)
               /\ UNCHANGED connState
          ELSE /\ connState' = [connState EXCEPT ![c] = "closed"]
               /\ UNCHANGED pool
       /\ active_connections' = active_connections - 1

\* what the with statement does with an exception raised in its body:
\* the generator's finally block returns early when rollback fails, so
\* contextmanager.__exit__ reports the exception as handled
ExcAfterExit(exc, rollback_ok) == IF rollback_ok THEN exc ELSE NoExc

\* close_all
close_all ==
  /\ connState' = [c \in ConnIds |->
                     IF \E i \in 1..Len(pool) : pool[i] = c THEN "closed"
                     ELSE connState[c]]
  /\ pool' = <<>>
  /\ UNCHANGED active_connections

\* ----------------------------------------------------------------- inputs
StartSec == StartClock \div UsecPerSec

\* tokens presented to /request
Tokens ==
  { Signed(dev, <<"1">>, IntToStr(StartSec)),
    Signed(dev, <<"1">>, IntToStr(StartSec - FreshnessWindow)),
    Join(<<dev, <<"1">>, IntToStr(StartSec), none, none, <<"b", "a", "d">>>>) }

\* profile field of the request body (TokenRequest.profile)
RequestProfiles == {dev, privileged}

\* what PROVISIONER_PATH can do
\* exit status not 0; stdout that is not JSON; JSON that is not an
\* object; an object without host, port or user; a full object
ProvisionOutcomes == {"exit_nonzero", "bad_json", "not_object", "no_host", "ok"}

AbsentId == 1
RecorderIds == {2}

Rows == DOMAIN sessions

Calls(f, s) == IF s \in DOMAIN f THEN f[s] ELSE 0

Bump(f, s) ==
  [x \in DOMAIN f \cup {s} |-> IF x = s THEN Calls(f, s) + 1 ELSE f[x]]

Done(t, code, msg) == [t EXCEPT !.pc = "done", !.resp = code, !.msg = msg]

\* ---------------------------------------------- gateway: POST /request
\* handle_request without the check of validate_token's result
HandleRequest_unchecked(p, token, profile) ==
  /\ th[p].pc = "idle"
  /\ th' = [th EXCEPT ![p] =
              [Blank EXCEPT !.op = "request", !.token = token, !.profile = profile,
                            !.pc = "r_provision", !.ttl = 1, !.sid = clock]]
  /\ UNCHANGED <<clock, storeVars, poolVars, bgTasks, containers, redeemCount, auxVars>>

\* handle_request up to the provisioner call: validate_token, ttl,
\* session_id
HandleRequest(p, token, profile) ==
  /\ th[p].pc = "idle"
  /\ LET t == [Blank EXCEPT !.op = "request", !.token = token, !.profile = profile]
     IN IF ~validate_token(token, current_time)
        THEN th' = [th EXCEPT ![p] = Done(t, 403, "Invalid token")]
        ELSE th' = [th EXCEPT ![p] =
                      [t EXCEPT !.pc = "r_provision",
                                !.ttl = IntVal(split(token)[2]),
                                !.sid = clock]]
  /\ UNCHANGED <<clock, storeVars, poolVars, bgTasks, containers, redeemCount, auxVars>>

\* the provisioner call without the check of result.returncode
RunProvisioner_anyexit(p, outcome) ==
  /\ th[p].pc = "r_provision"
  /\ containers' = containers \cup {th[p].sid}
  /\ th' = [th EXCEPT ![p] =
       LET t == [@ EXCEPT !.info = outcome] IN
       CASE outcome = "bad_json" -> Done(t, 500, "Invalid response from provisioner")
         [] outcome = "not_object" -> Done(t, 500, "TypeError")
         [] OTHER -> [t EXCEPT !.pc = "r_store", !.start = clock]]
  /\ UNCHANGED <<clock, storeVars, poolVars, bgTasks, redeemCount, auxVars>>

\* subprocess.run([PROVISIONER_PATH, ...]) and the parsing of its output
RunProvisioner(p, outcome) ==
  /\ th[p].pc = "r_provision"
  /\ containers' = IF outcome = "exit_nonzero" THEN containers
                   ELSE containers \cup {th[p].sid}
  /\ th' = [th EXCEPT ![p] =
       LET t == [@ EXCEPT !.info = outcome] IN
       CASE outcome = "exit_nonzero" -> Done(t, 500, "Provisioning failed")
         [] outcome = "bad_json" -> Done(t, 500, "Invalid response from provisioner")
         [] outcome = "not_object" -> Done(t, 500, "TypeError")
         [] OTHER -> [t EXCEPT !.pc = "r_store", !.start = clock]]
  /\ UNCHANGED <<clock, storeVars, poolVars, bgTasks, redeemCount, auxVars>>

\* subprocess.run is called without a timeout argument: when the
\* provisioner does not exit, the call does not return and the handler
\* stays in it
ProvisionerHangs(p) ==
  /\ th[p].pc = "r_provision"
  /\ th' = [th EXCEPT ![p] = [@ EXCEPT !.pc = "r_blocked", !.info = "hangs"]]
  /\ UNCHANGED <<clock, storeVars, poolVars, bgTasks, containers, redeemCount, auxVars>>

NewRow(t) ==
  [status |-> "active", ttl |-> t.ttl, profile |-> t.profile,
   created_at |-> clock, ended_at |-> 0,
   info |-> IF t.info = "ok" THEN "full" ELSE "partial"]

\* a handler that leaves the with block without having inserted the row
StoreSession_noinsert(p) ==
  /\ th[p].pc = "r_store"
  /\ \E c \in ConnIds :
       /\ get_connection_enter(th[p].start, c)
       /\ th' = [th EXCEPT ![p] = [@ EXCEPT !.pc = "r_release", !.conn = c, !.start = 0]]
  /\ UNCHANGED <<clock, storeVars, bgTasks, containers, redeemCount, auxVars>>

\* with get_db_connection() as conn: INSERT INTO sessions ...; commit
StoreSession(p) ==
  /\ th[p].pc = "r_store"
  /\ \E c \in ConnIds :
       /\ get_connection_enter(th[p].start, c)
       /\ IF th[p].sid \in Rows
          THEN /\ th' = [th EXCEPT ![p] = [@ EXCEPT !.pc = "r_release", !.conn = c, !.exc = 500,
                                                    !.start = 0, !.msg = "IntegrityError"]]
               /\ UNCHANGED sessions
          ELSE /\ th' = [th EXCEPT ![p] = [@ EXCEPT !.pc = "r_release", !.conn = c, !.start = 0]]
               /\ sessions' = [x \in Rows \cup {th[p].sid} |->
                                 IF x = th[p].sid THEN NewRow(th[p]) ELSE sessions[x]]
  /\ UNCHANGED <<clock, recordings, metaFiles, bgTasks, containers, redeemCount, auxVars>>

\* the pool gives no connection within its timeout: TimeoutError, caught
\* by except Exception
StoreTimeout(p) ==
  /\ th[p].pc = "r_store"
  /\ get_connection_timeout(th[p].start)
  /\ th' = [th EXCEPT ![p] = Done([@ EXCEPT !.start = 0], 500, "TimeoutError")]
  /\ UNCHANGED <<clock, storeVars, bgTasks, containers, redeemCount, auxVars>>

\* leaving the with block, then add_task(schedule_destroy, ...) and
\* return connection_info
FinishRequest(p, rollback_ok) ==
  /\ th[p].pc = "r_release"
  /\ get_connection_exit(th[p].conn, rollback_ok)
  /\ IF ExcAfterExit(th[p].exc, rollback_ok) # NoExc
     THEN /\ th' = [th EXCEPT ![p] = Done([@ EXCEPT !.conn = NoConn], 500, th[p].msg)]
          /\ UNCHANGED <<bgTasks, redeemCount>>
     ELSE /\ th' = [th EXCEPT ![p] = Done([@ EXCEPT !.conn = NoConn], 200, "connection_info")]
          /\ bgTasks' = bgTasks \cup {[sid |-> th[p].sid, ttl |-> th[p].ttl]}
          /\ redeemCount' = [redeemCount EXCEPT ![th[p].token] = @ + 1]
  /\ UNCHANGED <<clock, storeVars, containers, auxVars>>

\* the background task runs schedule_destroy, which defines destroy_task
\* and returns: destroy_task is neither called nor started
schedule_destroy(t) ==
  /\ t \in bgTasks
  /\ bgTasks' = bgTasks \ {t}
  /\ UNCHANGED <<clock, storeVars, poolVars, th, containers, redeemCount, auxVars>>

\* ---------------------------------------------- gateway: POST /destroy
\* the request arrives and get_connection starts waiting
DestroySession(p, sid) ==
  /\ th[p].pc = "idle"
  /\ sid \in Rows \cup {AbsentId}
  /\ th' = [th EXCEPT ![p] =
              [Blank EXCEPT !.pc = "d_select", !.op = "destroy", !.sid = sid, !.start = clock]]
  /\ UNCHANGED <<clock, storeVars, poolVars, bgTasks, containers, redeemCount, auxVars>>

\* with get_db_connection() as conn: SELECT container_name, status ...
DestroySelect(p) ==
  /\ th[p].pc = "d_select"
  /\ \E c \in ConnIds :
       /\ get_connection_enter(th[p].start, c)
       /\ th' = [th EXCEPT ![p] =
            IF th[p].sid \notin Rows
            THEN [@ EXCEPT !.pc = "d_release", !.conn = c, !.start = 0, !.exc = 404,
                           !.msg = "Session not found"]
            ELSE IF sessions[th[p].sid].status = "destroyed"
            THEN [@ EXCEPT !.pc = "d_release", !.conn = c, !.start = 0,
                           !.msg = "Session already destroyed"]
            ELSE [@ EXCEPT !.pc = "d_script", !.conn = c, !.start = 0]]
  /\ UNCHANGED <<clock, storeVars, bgTasks, containers, redeemCount, auxVars>>

DestroyTimeout(p) ==
  /\ th[p].pc = "d_select"
  /\ get_connection_timeout(th[p].start)
  /\ th' = [th EXCEPT ![p] = Done([@ EXCEPT !.start = 0], 500, "TimeoutError")]
  /\ UNCHANGED <<clock, storeVars, bgTasks, containers, redeemCount, auxVars>>

\* UPDATE sessions SET status = 'destroyed', ended_at = ? WHERE session_id = ?
MarkDestroyed(sid) ==
  [x \in Rows |-> IF x = sid
                  THEN [sessions[x] EXCEPT !.status = "destroyed", !.ended_at = clock]
                  ELSE sessions[x]]

\* a destroy that puts the session back to active when the script fails
DestroyRunScript_reactivate(p, rc_ok) ==
  /\ th[p].pc = "d_script"
  /\ containers' = IF rc_ok THEN containers \ {th[p].sid} ELSE containers
  /\ IF rc_ok
     THEN /\ sessions' = MarkDestroyed(th[p].sid)
          /\ th' = [th EXCEPT ![p] = [@ EXCEPT !.pc = "d_release",
                                               !.msg = "destroyed successfully"]]
     ELSE /\ th' = [th EXCEPT ![p] = [@ EXCEPT !.pc = "d_release", !.exc = 500,
                                               !.msg = "Destroy failed"]]
          /\ sessions' = [x \in Rows |->
                            IF x = th[p].sid THEN [sessions[x] EXCEPT !.status = "active"]
                            ELSE sessions[x]]
  /\ UNCHANGED <<clock, recordings, metaFiles, poolVars, bgTasks, redeemCount, auxVars>>

\* subprocess.run(['./scripts/box-destroy.sh', container_name]); a
\* non-zero return code raises HTTPException(500), else the UPDATE and
\* commit follow
DestroyRunScript(p, rc_ok) ==
  /\ th[p].pc = "d_script"
  /\ containers' = IF rc_ok THEN containers \ {th[p].sid} ELSE containers
  /\ IF rc_ok
     THEN /\ sessions' = MarkDestroyed(th[p].sid)
          /\ th' = [th EXCEPT ![p] = [@ EXCEPT !.pc = "d_release",
                                               !.msg = "destroyed successfully"]]
     ELSE /\ th' = [th EXCEPT ![p] = [@ EXCEPT !.pc = "d_release", !.exc = 500,
                                               !.msg = "Destroy failed"]]
          /\ UNCHANGED sessions
  /\ UNCHANGED <<clock, recordings, metaFiles, poolVars, bgTasks, redeemCount, auxVars>>

\* a destroy_session that ends without the finally block of
\* get_connection having run
FinishDestroy_norelease(p, rollback_ok) ==
  /\ th[p].pc = "d_release"
  /\ UNCHANGED poolVars
  /\ LET e == ExcAfterExit(th[p].exc, rollback_ok)
         t == [th[p] EXCEPT !.conn = NoConn]
     IN th' = [th EXCEPT ![p] =
          IF e # NoExc THEN Done(t, e, th[p].msg)
          ELSE IF th[p].exc # NoExc THEN Done(t, 200, "destroyed successfully")
          ELSE Done(t, 200, th[p].msg)]
  /\ UNCHANGED <<clock, storeVars, bgTasks, containers, redeemCount, auxVars>>

\* leaving the with block, then the return statement or the exception
FinishDestroy(p, rollback_ok) ==
  /\ th[p].pc = "d_release"
  /\ get_connection_exit(th[p].conn, rollback_ok)
  /\ LET e == ExcAfterExit(th[p].exc, rollback_ok)
         t == [th[p] EXCEPT !.conn = NoConn]
     IN th' = [th EXCEPT ![p] =
          IF e # NoExc THEN Done(t, e, th[p].msg)
          ELSE IF th[p].exc # NoExc THEN Done(t, 200, "destroyed successfully")
          ELSE Done(t, 200, th[p].msg)]
  /\ UNCHANGED <<clock, storeVars, bgTasks, containers, redeemCount, auxVars>>

\* POST /destroy when DB_TYPE is 'postgresql', the database of
\* provisioner.py: SELECT, the destroy script, UPDATE, on a connection
\* of its own
destroy_session_postgresql(p, sid, rc_ok) ==
  /\ th[p].pc = "idle"
  /\ LET t == [Blank EXCEPT !.op = "destroy", !.sid = sid]
         run == sid \in Rows /\ sessions[sid].status # "destroyed"
     IN /\ th' = [th EXCEPT ![p] =
               IF sid \notin Rows THEN Done(t, 404, "Session not found")
               ELSE IF sessions[sid].status = "destroyed"
               THEN Done(t, 200, "Session already destroyed")
               ELSE IF ~rc_ok THEN Done(t, 500, "Destroy failed")
               ELSE Done(t, 200, "destroyed successfully")]
        /\ sessions' = IF run /\ rc_ok THEN MarkDestroyed(sid) ELSE sessions
        /\ containers' = IF run /\ rc_ok THEN containers \ {sid} ELSE containers
  /\ UNCHANGED <<clock, recordings, metaFiles, poolVars, bgTasks, redeemCount, auxVars>>

\* the response has been sent
Return(p) ==
  /\ th[p].pc = "done"
  /\ th' = [th EXCEPT ![p] = Blank]
  /\ UNCHANGED <<clock, storeVars, poolVars, bgTasks, containers, redeemCount, auxVars>>

\* --------------------------------------------------------------- recorder
\* SQLiteSessionRecorder.start_recording: INSERT (IntegrityError when the
\* id exists), then the metadata file
start_recording(sid, profile, ttl) ==
  /\ sid \notin Rows
  /\ sessions' = [x \in Rows \cup {sid} |->
                    IF x = sid
                    THEN [status |-> "active", ttl |-> ttl, profile |-> profile,
                          created_at |-> clock, ended_at |-> 0, info |-> "none"]
                    ELSE sessions[x]]
  /\ metaFiles' = metaFiles \cup {sid}
  /\ UNCHANGED <<clock, recordings, poolVars, th, bgTasks, containers, redeemCount, auxVars>>

\* POST /recordings/start of the recorder service: start_recording, whose
\* INSERT raises IntegrityError on an existing id before anything is
\* written; the endpoint answers 500 then
post_recordings_start(p, sid, profile, ttl) ==
  /\ th[p].pc = "idle"
  /\ LET t == [Blank EXCEPT !.op = "start_recording", !.sid = sid, !.profile = profile,
                            !.ttl = ttl]
     IN IF sid \in Rows
        THEN /\ th' = [th EXCEPT ![p] = Done(t, 500, "IntegrityError")]
             /\ UNCHANGED <<sessions, metaFiles>>
        ELSE /\ th' = [th EXCEPT ![p] = Done(t, 200, "recording_file")]
             /\ sessions' = [x \in Rows \cup {sid} |->
                               IF x = sid
                               THEN [status |-> "active", ttl |-> ttl, profile |-> profile,
                                     created_at |-> clock, ended_at |-> 0, info |-> "none"]
                               ELSE sessions[x]]
             /\ metaFiles' = metaFiles \cup {sid}
  /\ UNCHANGED <<clock, recordings, poolVars, bgTasks, containers, redeemCount, auxVars>>

\* SQLiteSessionRecorder.get_session on the table tbl: the row as a
\* one-element sequence, or the empty sequence for None
get_session(tbl, sid) ==
  IF sid \in DOMAIN tbl
  THEN <<[session_id |-> sid, status |-> tbl[sid].status, profile |-> tbl[sid].profile,
          ttl |-> tbl[sid].ttl, created_at |-> tbl[sid].created_at,
          ended_at |-> tbl[sid].ended_at]>>
  ELSE <<>>

\* a stop_recording whose UPDATE sets the status and leaves ended_at
stop_recording_noended(sid, cast_exists) ==
  /\ sid \in Rows \cup {AbsentId}
  /\ sessions' = [x \in Rows |->
                    IF x = sid THEN [sessions[x] EXCEPT !.status = "ended"] ELSE sessions[x]]
  /\ IF sid \in metaFiles /\ cast_exists
     THEN recordings' = Bump(recordings, sid)
     ELSE UNCHANGED recordings
  /\ reply' = [op |-> "stop_recording", sid |-> sid, value |-> get_session(sessions', sid)]
  /\ UNCHANGED <<clock, metaFiles, poolVars, th, bgTasks, containers, redeemCount,
                 invite, timers, purge, drained>>

\* SQLiteSessionRecorder.stop_recording: UPDATE ... SET status = 'ended',
\* then the session_recordings row when the metadata file and the
\* recording file exist
stop_recording(sid, cast_exists) ==
  /\ sid \in Rows \cup {AbsentId}
  /\ sessions' = [x \in Rows |->
                    IF x = sid
                    THEN [sessions[x] EXCEPT !.status = "ended", !.ended_at = clock]
                    ELSE sessions[x]]
  /\ IF sid \in metaFiles /\ cast_exists
     THEN recordings' = Bump(recordings, sid)
     ELSE UNCHANGED recordings
  /\ reply' = [op |-> "stop_recording", sid |-> sid, value |-> get_session(sessions', sid)]
  /\ UNCHANGED <<clock, metaFiles, poolVars, th, bgTasks, containers, redeemCount,
                 invite, timers, purge, drained>>

\* what leaves an endpoint of the recorder service when status code is
\* raised as HTTPException inside its try block: HTTPException is an
\* Exception, so "except Exception as e" catches it and raises
\* HTTPException(status_code=500, detail=str(e))
except_Exception(code) == 500

\* POST /recordings/stop: recorder.stop_recording, "if result is None:
\* raise HTTPException(404)" inside the try block
post_recordings_stop(p, sid, cast_exists) ==
  /\ th[p].pc = "idle"
  /\ sessions' = [x \in Rows |->
                    IF x = sid
                    THEN [sessions[x] EXCEPT !.status = "ended", !.ended_at = clock]
                    ELSE sessions[x]]
  /\ IF sid \in metaFiles /\ cast_exists
     THEN recordings' = Bump(recordings, sid)
     ELSE UNCHANGED recordings
  /\ LET result == get_session(sessions', sid)
         t == [Blank EXCEPT !.op = "stop_recording", !.sid = sid]
     IN /\ reply' = [op |-> "stop_recording", sid |-> sid, value |-> result]
        /\ th' = [th EXCEPT ![p] =
               IF result = <<>> THEN Done(t, except_Exception(404), "Session not found")
               ELSE Done(t, 200, "session")]
  /\ UNCHANGED <<clock, metaFiles, poolVars, bgTasks, containers, redeemCount,
                 invite, timers, purge, drained>>

\* GET /recordings/{session_id}: recorder.get_recording, which is None
\* when get_session is, "if result is None: raise HTTPException(404)"
\* inside the try block
get_recording(p, sid) ==
  /\ th[p].pc = "idle"
  /\ LET result == get_session(sessions, sid)
         t == [Blank EXCEPT !.op = "get_recording", !.sid = sid]
     IN /\ reply' = [op |-> "get_recording", sid |-> sid, value |-> result]
        /\ th' = [th EXCEPT ![p] =
               IF result = <<>> THEN Done(t, except_Exception(404), "Recording not found")
               ELSE Done(t, 200, "recording")]
  /\ UNCHANGED <<clock, storeVars, poolVars, bgTasks, containers, redeemCount,
                 invite, timers, purge, drained>>

\* ----------------------------------------- callers of the pool in general
\* a thread reaches "with pool.get_connection() as conn:"
Borrow(p) ==
  /\ th[p].pc = "idle"
  /\ th' = [th EXCEPT ![p] = [Blank EXCEPT !.pc = "b_wait", !.op = "borrow", !.start = clock]]
  /\ UNCHANGED <<clock, storeVars, poolVars, bgTasks, containers, redeemCount, auxVars>>

\* the loop of get_connection obtains a connection and yields it
BorrowEnter(p) ==
  /\ th[p].pc = "b_wait"
  /\ \E c \in ConnIds :
       /\ get_connection_enter(th[p].start, c)
       /\ th' = [th EXCEPT ![p] = [@ EXCEPT !.pc = "b_body", !.conn = c]]
  /\ UNCHANGED <<clock, storeVars, bgTasks, containers, redeemCount, auxVars>>

\* the loop of get_connection ends without one: TimeoutError
BorrowTimeout(p) ==
  /\ th[p].pc = "b_wait"
  /\ get_connection_timeout(th[p].start)
  /\ th' = [th EXCEPT ![p] = Done(@, 500, "TimeoutError")]
  /\ UNCHANGED <<clock, storeVars, bgTasks, containers, redeemCount, auxVars>>

\* the body of the with statement ends, by falling through or by
\* raising, and the finally block of get_connection runs
BorrowExit(p, raised, rollback_ok) ==
  /\ th[p].pc = "b_body"
  /\ get_connection_exit(th[p].conn, rollback_ok)
  /\ LET e == ExcAfterExit(IF raised THEN 500 ELSE NoExc, rollback_ok)
         t == [th[p] EXCEPT !.conn = NoConn, !.exc = IF raised THEN 500 ELSE NoExc,
                            !.info = IF rollback_ok THEN "rolled_back" ELSE "rollback_failed"]
     IN th' = [th EXCEPT ![p] = IF e # NoExc THEN Done(t, e, "raised")
                                ELSE Done(t, 200, "returned")]
  /\ UNCHANGED <<clock, storeVars, bgTasks, containers, redeemCount, auxVars>>

\* somebody calls connection_pool.close_all()
CloseAll ==
  /\ close_all
  /\ drained' = TRUE
  /\ UNCHANGED <<clock, storeVars, th, bgTasks, containers, redeemCount, invite, timers, purge, reply>>

\* ------------------------------------------------ provisioner.py (Flask)
\* POST /provision with a session_id chosen by the caller: the script,
\* the parsing of its output, the INSERT and schedule_destroy, which
\* starts a daemon thread running destroy_task
provision_container(p, sid, ttl, outcome) ==
  /\ th[p].pc = "idle"
  /\ LET t == [Blank EXCEPT !.op = "provision", !.sid = sid, !.ttl = ttl, !.info = outcome,
                            !.profile = dev]
         stored == outcome \in {"no_host", "ok"} /\ sid \notin Rows
     IN /\ containers' = IF outcome = "exit_nonzero" THEN containers
                         ELSE containers \cup {sid}
        /\ sessions' = IF stored
                       THEN [x \in Rows \cup {sid} |->
                               IF x = sid THEN NewRow(t) ELSE sessions[x]]
                       ELSE sessions
        /\ timers' = IF stored
                     THEN timers \cup {[sid |-> sid, due |-> clock + ttl * UsecPerSec,
                                        stage |-> "sleeping", outcome |-> "none"]}
                     ELSE timers
        /\ th' = [th EXCEPT ![p] =
             IF stored THEN Done(t, 200, "connection_info")
             ELSE IF outcome = "exit_nonzero" THEN Done(t, 500, "Provisioning failed")
             ELSE IF outcome \in {"bad_json", "not_object"} THEN Done(t, 500, "Exception")
             ELSE Done(t, 500, "IntegrityError")]
  /\ UNCHANGED <<clock, recordings, metaFiles, poolVars, bgTasks, redeemCount, invite, purge, drained, reply>>

\* the thread started by schedule_destroy, after time.sleep(ttl):
\* subprocess.run(..., check=True), then the UPDATE; CalledProcessError
\* and every other exception are caught and printed
destroy_task(t, rc_ok, update_ok) ==
  /\ t \in timers
  /\ t.stage = "sleeping"
  /\ clock >= t.due
  /\ containers' = IF rc_ok THEN containers \ {t.sid} ELSE containers
  /\ sessions' = IF rc_ok /\ update_ok THEN MarkDestroyed(t.sid) ELSE sessions
  /\ timers' = (timers \ {t}) \cup
       {[t EXCEPT !.stage = "finished",
                  !.outcome = IF ~rc_ok THEN "destroy_failed"
                              ELSE IF ~update_ok THEN "update_failed" ELSE "destroyed"]}
  /\ UNCHANGED <<clock, recordings, metaFiles, poolVars, th, bgTasks, redeemCount, invite, purge, drained, reply>>

\* -------------------------------------------------------------- retention
\* In this part created_at and now are whole seconds since
\* 2026-10-01T00:00:00 (UTC), the resolution of SQLite's datetime('now').
SecPerDay == 86400
RetentionDays == 7

\* two decimal digits
Two(n) == IntToStr(n \div 10) \o IntToStr(n % 10)

\* YYYY-MM-DD
DateText(t) == <<"2", "0", "2", "6", "-", "1", "0", "-">> \o Two(t \div SecPerDay + 1)

\* HH:MM:SS
ClockText(t) ==
  LET secs == t % SecPerDay
  IN Two(secs \div 3600) \o <<":">> \o Two((secs % 3600) \div 60) \o <<":">> \o Two(secs % 60)

\* datetime.utcnow().isoformat(), the text stored in created_at (the
\* fraction of a second that may follow is left out)
isoformat(t) == DateText(t) \o <<"T">> \o ClockText(t)

\* SQLite's datetime(...), the text the WHERE clause compares with
sqlite_datetime(t) == DateText(t) \o <<" ">> \o ClockText(t)

\* code point of a character of these texts
Ord(c) ==
  CASE c = " " -> 32 [] c = "-" -> 45 [] c = "." -> 46 [] c = ":" -> 58 [] c = "T" -> 84
    [] OTHER -> 48 + DigitVal(c)

RECURSIVE TextLess(_, _)
\* a < b on TEXT values (BINARY collation: byte by byte)
TextLess(a, b) ==
  IF b = <<>> THEN FALSE
  ELSE IF a = <<>> THEN TRUE
  ELSE IF Head(a) = Head(b) THEN TextLess(Tail(a), Tail(b))
  ELSE Ord(Head(a)) < Ord(Head(b))

\* SELECT session_id FROM sessions WHERE created_at < datetime('now',
\* '-<days> days') AND (status = 'ended' OR status = 'destroyed')
old_sessions(days, now) ==
  {s \in Rows :
     /\ TextLess(isoformat(sessions[s].created_at), sqlite_datetime(now - days * SecPerDay))
     /\ sessions[s].status \in {"ended", "destroyed"}}

\* SQLiteSessionRecorder.cleanup_old_recordings(days) called when the
\* time is now. The files of the sessions in unlinked are removed; when
\* raised, an unlink() of a file of another old session raises and the
\* exception leaves the method before the DELETE statements
cleanup_old_recordings(days, now, unlinked, raised) ==
  LET old == old_sessions(days, now) IN
  /\ unlinked \subseteq old
  /\ raised => unlinked # old
  /\ ~raised => unlinked = old
  /\ metaFiles' = metaFiles \ unlinked
  /\ IF raised
     THEN UNCHANGED <<sessions, recordings>>
     ELSE /\ sessions' = [s \in Rows \ old |-> sessions[s]]
          /\ recordings' = [s \in (DOMAIN recordings) \ old |-> recordings[s]]
  /\ purge' = [outcome |-> IF raised THEN "raised" ELSE "done",
               days |-> days, now |-> now, selected |-> old, unlinked |-> unlinked]
  /\ UNCHANGED <<clock, poolVars, th, bgTasks, containers, redeemCount, invite, timers, drained, reply>>

\* cleanup_old_recordings step by step, as other callers of the database
\* see it. First the SELECT of the old sessions, in a connection of its
\* own, at time now
cleanup_select(days, now) ==
  /\ purge.outcome = "none"
  /\ purge' = [outcome |-> "selected", days |-> days, now |-> now,
               selected |-> old_sessions(days, now), unlinked |-> {}]
  /\ UNCHANGED <<clock, storeVars, poolVars, th, bgTasks, containers, redeemCount, invite, timers, drained, reply>>

\* then the loop that removes the files of the selected sessions; when
\* raised, an unlink() raises and the method ends there
cleanup_unlink(unlinked, raised) ==
  /\ purge.outcome = "selected"
  /\ unlinked \subseteq purge.selected
  /\ raised => unlinked # purge.selected
  /\ ~raised => unlinked = purge.selected
  /\ metaFiles' = metaFiles \ unlinked
  /\ purge' = [purge EXCEPT !.outcome = IF raised THEN "raised" ELSE "unlinked",
                            !.unlinked = unlinked]
  /\ UNCHANGED <<clock, sessions, recordings, poolVars, th, bgTasks, containers, redeemCount, invite, timers, drained, reply>>

\* then the two DELETE statements, in a second connection, whose WHERE
\* clauses are evaluated on the table as it is at time now
cleanup_delete(now) ==
  /\ purge.outcome = "unlinked"
  /\ now >= purge.now
  /\ LET old == old_sessions(purge.days, now)
     IN /\ sessions' = [s \in Rows \ old |-> sessions[s]]
        /\ recordings' = [s \in (DOMAIN recordings) \ old |-> recordings[s]]
  /\ purge' = [purge EXCEPT !.outcome = "deleted", !.now = now]
  /\ UNCHANGED <<clock, metaFiles, poolVars, th, bgTasks, containers, redeemCount, invite, timers, drained, reply>>

\* ------------------------------------------------ listing the sessions
\* six decimal digits
Six(n) == Two(n \div 10000) \o Two((n \div 100) % 100) \o Two(n % 100)

\* datetime.utcnow().isoformat() at clock value c, the text the INSERT
\* statements store in created_at: the fraction is left out when the
\* microseconds are 0. The day the clock starts is 2026-10-01.
utcnow_isoformat(c) ==
  isoformat(c \div UsecPerSec) \o
  (IF c % UsecPerSec = 0 THEN <<>> ELSE <<".">> \o Six(c % UsecPerSec))

RECURSIVE BeforeDot(_)
\* text.split('.')[0]
BeforeDot(text) ==
  IF text = <<>> \/ Head(text) = "." THEN <<>> ELSE <<Head(text)>> \o BeforeDot(Tail(text))

\* datetime.fromisoformat of YYYY-MM-DDTHH:MM:SS, in seconds
fromisoformat(text) ==
  (IntVal(SubSeq(text, 9, 10)) - 1) * SecPerDay + IntVal(SubSeq(text, 12, 13)) * 3600
  + IntVal(SubSeq(text, 15, 16)) * 60 + IntVal(SubSeq(text, 18, 19))

\* int(x) of a float given as a number of microseconds: towards zero
IntOfSeconds(usec) ==
  IF usec >= 0 THEN usec \div UsecPerSec ELSE 0 - ((0 - usec) \div UsecPerSec)

Max(a, b) == IF a > b THEN a ELSE b

\* max(0, int((expires_at - datetime.utcnow()).total_seconds())) for a
\* row stored at clock value created_at, computed at clock value now
time_left(created_at, ttl, now) ==
  LET expires_at == fromisoformat(BeforeDot(utcnow_isoformat(created_at))) + ttl
  IN Max(0, IntOfSeconds(expires_at * UsecPerSec - now))

\* the dict made of one row; time_left is a sequence of one number, or
\* empty when the key is not set
SessionDict(s, now) ==
  [session_id |-> s, status |-> sessions[s].status, ttl |-> sessions[s].ttl,
   created_at |-> sessions[s].created_at,
   time_left |-> IF sessions[s].status = "active" /\ sessions[s].ttl # 0
                 THEN <<time_left(sessions[s].created_at, sessions[s].ttl, now)>>
                 ELSE <<>>]

\* the orders in which the rows of S can come out of ORDER BY created_at
\* DESC, a comparison of TEXT values
OrderByCreatedAtDesc(S) ==
  {f \in [1..Cardinality(S) -> S] :
     /\ \A i, j \in DOMAIN f : f[i] = f[j] => i = j
     /\ \A i \in DOMAIN f : \A j \in DOMAIN f :
          i < j => ~TextLess(utcnow_isoformat(sessions[f[i]].created_at),
                             utcnow_isoformat(sessions[f[j]].created_at))}

\* the rows of SELECT * FROM sessions [WHERE status = ?]; "if status"
\* takes None and the empty string alike
select_sessions(status) ==
  IF status \in {"None", ""} THEN Rows ELSE {s \in Rows : sessions[s].status = status}

\* GET /sessions arrives and get_connection starts waiting
list_sessions(p, status) ==
  /\ th[p].pc = "idle"
  /\ th' = [th EXCEPT ![p] =
              [Blank EXCEPT !.pc = "l_select", !.op = "list", !.status = status, !.start = clock]]
  /\ UNCHANGED <<clock, storeVars, poolVars, bgTasks, containers, redeemCount, auxVars>>

\* with get_db_connection() as conn: the SELECT and the loop that adds
\* time_left
ListSelect(p) ==
  /\ th[p].pc = "l_select"
  /\ \E c \in ConnIds :
       /\ get_connection_enter(th[p].start, c)
       /\ \E f \in OrderByCreatedAtDesc(select_sessions(th[p].status)) :
            th' = [th EXCEPT ![p] =
                     [@ EXCEPT !.pc = "l_release", !.conn = c, !.start = 0,
                               !.sessions = [i \in DOMAIN f |-> SessionDict(f[i], clock)]]]
  /\ UNCHANGED <<clock, storeVars, bgTasks, containers, redeemCount, auxVars>>

ListTimeout(p) ==
  /\ th[p].pc = "l_select"
  /\ get_connection_timeout(th[p].start)
  /\ th' = [th EXCEPT ![p] = Done([@ EXCEPT !.start = 0], 500, "TimeoutError")]
  /\ UNCHANGED <<clock, storeVars, bgTasks, containers, redeemCount, auxVars>>

\* leaving the with block, then return sessions
FinishList(p, rollback_ok) ==
  /\ th[p].pc = "l_release"
  /\ get_connection_exit(th[p].conn, rollback_ok)
  /\ th' = [th EXCEPT ![p] = Done([@ EXCEPT !.conn = NoConn], 200, "sessions")]
  /\ UNCHANGED <<clock, storeVars, bgTasks, containers, redeemCount, auxVars>>

\* GET /recordings: limit: int = 50
DefaultLimit == 50

\* the rows of sessions s LEFT JOIN session_recordings r: one per
\* recording row of the session, one with NULLs for a session without
JoinedRows ==
  {<<s, k>> : s \in Rows, k \in 0..MaxRecordings} \cap
  {jr \in Rows \X (0..MaxRecordings) :
     IF Calls(recordings, jr[1]) = 0 THEN jr[2] = 0
     ELSE jr[2] \in 1..Calls(recordings, jr[1])}

\* SQLiteSessionRecorder.list_recordings(limit): LEFT JOIN, ORDER BY
\* s.created_at DESC, LIMIT
list_recordings(limit) ==
  /\ \E f \in [1..Cardinality(JoinedRows) -> JoinedRows] :
       /\ \A i, j \in DOMAIN f : f[i] = f[j] => i = j
       /\ \A i \in DOMAIN f : \A j \in DOMAIN f :
            i < j => ~TextLess(utcnow_isoformat(sessions[f[i][1]].created_at),
                               utcnow_isoformat(sessions[f[j][1]].created_at))
       /\ reply' = [op |-> "list_recordings", sid |-> 0,
                    value |-> [i \in 1..Min(limit, Cardinality(JoinedRows)) |->
                                 [session_id |-> f[i][1], status |-> sessions[f[i][1]].status,
                                  created_at |-> sessions[f[i][1]].created_at,
                                  recording |-> f[i][2]]]]
  /\ UNCHANGED <<clock, storeVars, poolVars, th, bgTasks, containers, redeemCount,
                 invite, timers, purge, drained>>

\* ------------------------------------------------- invites and their check
\* box-invite.py create prints a token for the holder of secret
CreateInvite(secret, profile, ttl, recipient, notes) ==
  /\ invite.stage = "none"
  /\ invite' = [invite EXCEPT
       !.stage = "held", !.origin = "issued", !.secret = secret, !.profile = profile,
       !.token = create_invite(secret, profile, ttl, recipient, notes, current_time),
       !.issued_at = current_time]
  /\ UNCHANGED <<clock, storeVars, poolVars, th, bgTasks, containers, redeemCount, timers, purge, drained, reply>>

\* position of the first character of the signature field
SignatureStart(token) ==
  Len(token) - Len(split(token)[Len(split(token))]) + 1

\* somebody changes the character at position i of the signature into c
TamperSignature(i, c) ==
  /\ invite.stage = "held"
  /\ invite.origin = "issued"
  /\ ~invite.tampered
  /\ i \in SignatureStart(invite.token)..Len(invite.token)
  /\ c # invite.token[i]
  /\ invite' = [invite EXCEPT !.token = [@ EXCEPT ![i] = c], !.tampered = TRUE]
  /\ UNCHANGED <<clock, storeVars, poolVars, th, bgTasks, containers, redeemCount, timers, purge, drained, reply>>

\* somebody presents a string that create_invite did not make
PresentString(str) ==
  /\ invite.stage = "none"
  /\ invite' = [invite EXCEPT !.stage = "held", !.origin = "forged", !.token = str]
  /\ UNCHANGED <<clock, storeVars, poolVars, th, bgTasks, containers, redeemCount, timers, purge, drained, reply>>

\* the gateway calls validate_token(token) at int(time.time())
VerifyInvite ==
  /\ invite.stage = "held"
  /\ invite' = [invite EXCEPT
       !.stage = "checked", !.checked_at = current_time,
       !.result = validate_token_under(invite.key, invite.token, current_time)]
  /\ UNCHANGED <<clock, storeVars, poolVars, th, bgTasks, containers, redeemCount, timers, purge, drained, reply>>

\* time passes until int(time.time()) is t
SleepUntil(t) ==
  /\ t > current_time
  /\ clock' = t * UsecPerSec
  /\ UNCHANGED <<storeVars, poolVars, th, bgTasks, containers, redeemCount, auxVars>>

\* ------------------------------------------------------------ specification
Init ==
  /\ clock = StartClock
  /\ sessions = <<>>
  /\ recordings = <<>>
  /\ metaFiles = {}
  /\ InitPool
  /\ th = [p \in Procs |-> Blank]
  /\ bgTasks = {}
  /\ containers = {}
  /\ redeemCount = [t \in Tokens |-> 0]
  /\ invite = NoInvite
  /\ timers = {}
  /\ purge = NoPurge
  /\ drained = FALSE
  /\ reply = NoReply

\* sessions stored, being provisioned or left behind as containers
Started ==
  Rows \cup containers \cup
  {th[q].sid : q \in {r \in Procs : th[r].op = "request" /\ th[r].pc \notin {"idle", "done"}}}

\* the steps of POST /request once it has arrived, and of the scheduler
RequestSteps(P) ==
  \/ \E p \in P, o \in ProvisionOutcomes : RunProvisioner(p, o)
  \/ \E p \in P : StoreSession(p)
  \/ \E p \in P, ok \in BOOLEAN : FinishRequest(p, ok)
  \/ \E p \in P : Return(p)
  \/ \E t \in bgTasks : schedule_destroy(t)
  \/ TickSec

\* the steps of POST /destroy once it has arrived
DestroySteps(P) ==
  \/ \E p \in P : DestroySelect(p)
  \/ \E p \in P, ok \in BOOLEAN : DestroyRunScript(p, ok)
  \/ \E p \in P, ok \in BOOLEAN : FinishDestroy(p, ok)

\* a handler gives up waiting for the pool
TimeoutSteps(P) ==
  \/ \E p \in P : StoreTimeout(p)
  \/ \E p \in P : DestroyTimeout(p)

\* redemption: one client after another presents tokens, nobody asks for
\* destruction
RedeemNext ==
  \/ RequestSteps({1})
  \/ TickUsec
  \/ \E tok \in Tokens, pr \in RequestProfiles :
       /\ Cardinality(Started) < MaxSessions
       /\ clock \notin Started    \* time has passed since the last request
       /\ HandleRequest(1, tok, pr)

RedeemSpec == Init /\ [][RedeemNext]_vars

\* the process keeps running: requests being handled, background tasks
\* and the clock are not starved; clients need not send anything
RedeemFairSpec == RedeemSpec /\ WF_vars(RequestSteps({1}))

\* redemption with a provisioner that may never exit; the gateway's own
\* steps are not starved
HangNext ==
  \/ RedeemNext
  \/ ProvisionerHangs(1)

HangFairSpec == Init /\ [][HangNext]_vars /\ WF_vars(RequestSteps({1}))

\* lifecycle of one session: redeemed, then destroyed by concurrent
\* clients and stopped by the recorder
LifecycleNext ==
  \/ RequestSteps(Procs)
  \/ DestroySteps(Procs)
  \/ TimeoutSteps(Procs)
  \/ \E p \in Procs :
       /\ Started = {}
       /\ HandleRequest(p, Signed(dev, <<"1">>, IntToStr(StartSec)), dev)
  \/ \E p \in Procs, s \in Rows \cup {AbsentId} : DestroySession(p, s)
  \/ \E s \in Rows \cup {AbsentId}, ce \in BOOLEAN : stop_recording(s, ce)

Spec == Init /\ [][LifecycleNext]_vars

\* the pool on its own, with more callers than connections
PoolThreads == 1..(MaxConnections + 2)

PoolInit ==
  /\ clock = StartClock
  /\ sessions = <<>>
  /\ recordings = <<>>
  /\ metaFiles = {}
  /\ InitPool
  /\ th = [p \in PoolThreads |-> Blank]
  /\ bgTasks = {}
  /\ containers = {}
  /\ redeemCount = [t \in Tokens |-> 0]
  /\ invite = NoInvite
  /\ timers = {}
  /\ purge = NoPurge
  /\ drained = FALSE
  /\ reply = NoReply

PoolNext ==
  \/ \E p \in PoolThreads : Borrow(p)
  \/ \E p \in PoolThreads : BorrowEnter(p)
  \/ \E p \in PoolThreads : BorrowTimeout(p)
  \/ \E p \in PoolThreads, raised \in BOOLEAN, ok \in BOOLEAN : BorrowExit(p, raised, ok)
  \/ \E p \in PoolThreads : Return(p)
  \/ CloseAll
  \/ TickSec

PoolSpec == PoolInit /\ [][PoolNext]_vars

\* the token codec: an invite is made or a string is forged, possibly
\* tampered with, and checked by a gateway some time later
Secrets == {GATEWAY_SECRET, <<"j">>}
InviteProfiles == allowed_profiles \cup {<<"r", "o", "o", "t">>}
Recipients == {<<>>, <<"a", ":", "b">>}
Notes == {<<>>, <<"n">>}
TamperChars == {"z", ":"}

\* a token that carries the signature a gateway with this key expects
SignedWith(key, fields) ==
  Join(fields) \o <<":">> \o HmacHex(key, Join(fields))

\* strings that did not come out of create_invite
ForgedStrings ==
  { <<>>,
    dev,
    Join(<<dev, <<"1">>, Str(StartSec), none, none>>),
    SignedWith(GATEWAY_SECRET, <<dev, <<"x">>, Str(StartSec), none, none>>),
    SignedWith(GATEWAY_SECRET, <<dev, <<"1">>, <<"n", "o", "w">>, none, none>>),
    SignedWith(GATEWAY_SECRET, <<dev, <<>>, Str(StartSec), none, none>>),
    SignedWith(GATEWAY_SECRET, <<dev, <<" ", "+", "1", "_", "0", " ">>, Str(StartSec), none, none>>),
    SignedWith(GATEWAY_SECRET, <<dev, <<"-", "1">>, Str(StartSec), none, none>>),
    SignedWith(GATEWAY_SECRET, <<dev, <<"1">>, Str(StartSec + FreshnessWindow + 2), none, none>>),
    SignedWith(GATEWAY_SECRET, <<dev, <<"1">>, Str(StartSec), none, none, none>>),
    SignedWith(GATEWAY_SECRET, <<<<"D", "e", "v">>, <<"1">>, Str(StartSec), none, none>>),
    Join(<<dev, <<"1">>, Str(StartSec), none, none, <<"é">>>>),
    Join(<<dev, <<"1">>, Str(StartSec), none, none, <<>>>>) }

\* the moments at which something happens
CodecTimes == {StartSec + FreshnessWindow - 1 + i : i \in 0..(MaxSec + 1)}

CodecInit ==
  /\ clock = StartClock
  /\ sessions = <<>>
  /\ recordings = <<>>
  /\ metaFiles = {}
  /\ InitPool
  /\ th = [p \in Procs |-> Blank]
  /\ bgTasks = {}
  /\ containers = {}
  /\ redeemCount = [t \in Tokens |-> 0]
  /\ \E k \in Secrets : invite = [NoInvite EXCEPT !.key = k]
  /\ timers = {}
  /\ purge = NoPurge
  /\ drained = FALSE
  /\ reply = NoReply

CodecNext ==
  \/ \E sec \in Secrets, pr \in InviteProfiles, ttl \in {600},
        r \in Recipients, n \in Notes : CreateInvite(sec, pr, ttl, r, n)
  \/ \E i \in 1..Len(invite.token), c \in TamperChars : TamperSignature(i, c)
  \/ \E str \in ForgedStrings : PresentString(str)
  \/ VerifyInvite
  \/ \E t \in CodecTimes : SleepUntil(t)

CodecSpec == CodecInit /\ [][CodecNext]_vars

\* issuing: box-invite.py create is run with the secrets an operator may
\* pass, the empty one among them, and the gateway checks what it printed
IssueNext ==
  \/ \E sec \in {<<>>, GATEWAY_SECRET}, pr \in InviteProfiles, ttl \in {600},
        r \in Recipients, n \in Notes : CreateInvite(sec, pr, ttl, r, n)
  \/ VerifyInvite
  \/ \E t \in CodecTimes : SleepUntil(t)

IssueSpec == Init /\ [][IssueNext]_vars

\* retention: a database with sessions of several ages and states, on
\* which the recorder stops sessions and the cleanup runs
PurgeNow == 8 * SecPerDay + 4 * 3600
PurgeIds == {AbsentId + 1, AbsentId + 2}
CreatedTimes ==
  {PurgeNow - (RetentionDays + 1) * SecPerDay,
   PurgeNow - RetentionDays * SecPerDay - 3600,
   PurgeNow - RetentionDays * SecPerDay + 3600}

PurgeInit ==
  /\ clock = StartClock
  /\ \E f \in [PurgeIds -> {"active", "ended", "destroyed"} \X CreatedTimes] :
       sessions = [s \in PurgeIds |->
                     [status |-> f[s][1], ttl |-> 1, profile |-> dev,
                      created_at |-> f[s][2],
                      ended_at |-> IF f[s][1] = "active" THEN 0 ELSE clock,
                      info |-> "none"]]
  /\ \E r \in SUBSET PurgeIds :
       /\ metaFiles = PurgeIds
       /\ recordings = [s \in r |-> 1]
       /\ \A s \in r : sessions[s].status = "ended"
  /\ InitPool
  /\ th = [p \in Procs |-> Blank]
  /\ bgTasks = {}
  /\ containers = {}
  /\ redeemCount = [t \in Tokens |-> 0]
  /\ invite = NoInvite
  /\ timers = {}
  /\ purge = NoPurge
  /\ drained = FALSE
  /\ reply = NoReply

PurgeNext ==
  \/ \E d \in {RetentionDays, RetentionDays + 1}, u \in SUBSET Rows, r \in BOOLEAN :
       cleanup_old_recordings(d, PurgeNow, u, r)
  \/ \E s \in Rows, ce \in BOOLEAN :
       /\ ce => Calls(recordings, s) < MaxRecordings
       /\ stop_recording(s, ce)

PurgeSpec == PurgeInit /\ [][PurgeNext]_vars

\* retention while the database is in use: between the steps of the
\* cleanup the recorder stops sessions and the gateway destroys them
SweepNext ==
  \/ cleanup_select(RetentionDays, PurgeNow)
  \/ \E u \in SUBSET Rows, r \in BOOLEAN : cleanup_unlink(u, r)
  \/ \E now \in {PurgeNow, PurgeNow + 1} : cleanup_delete(now)
  \/ \E s \in Rows, ce \in BOOLEAN :
       /\ ce => Calls(recordings, s) < MaxRecordings
       /\ stop_recording(s, ce)
  \/ \E s \in Rows : DestroySession(1, s)
  \/ DestroySelect(1)
  \/ \E ok \in BOOLEAN : DestroyRunScript(1, ok)
  \/ \E ok \in BOOLEAN : FinishDestroy(1, ok)
  \/ Return(1)

SweepSpec == PurgeInit /\ [][SweepNext]_vars

\* the provisioner service: containers are provisioned for ids chosen by
\* the callers and destroyed by the threads it starts
ProvisionIds == {AbsentId + 1, AbsentId + 2}

ProvisionerNext ==
  \/ \E sid \in ProvisionIds, ttl \in {1}, o \in ProvisionOutcomes :
       provision_container(1, sid, ttl, o)
  \/ Return(1)
  \/ \E t \in timers, rc_ok \in BOOLEAN, update_ok \in BOOLEAN : destroy_task(t, rc_ok, update_ok)
  \/ TickSec

ProvisionerSpec == Init /\ [][ProvisionerNext]_vars

\* the recorder on its own: recordings are started and stopped, in any
\* order and any number of times, while time passes
RecorderNext ==
  \/ \E s \in RecorderIds, pr \in {dev, debug} : start_recording(s, pr, 1)
  \/ \E s \in RecorderIds \cup {AbsentId}, ce \in BOOLEAN :
       /\ (ce /\ s \in metaFiles) => Calls(recordings, s) < MaxRecordings
       /\ stop_recording(s, ce)
  \/ list_recordings(DefaultLimit)
  \/ TickUsec
  \/ TickSec

RecorderSpec == Init /\ [][RecorderNext]_vars

\* the recorder service behind its HTTP endpoints
RecorderApiNext ==
  \/ \E s \in RecorderIds, pr \in {dev, debug} : post_recordings_start(1, s, pr, 1)
  \/ \E s \in RecorderIds \cup {AbsentId}, ce \in BOOLEAN :
       /\ (ce /\ s \in metaFiles) => Calls(recordings, s) < MaxRecordings
       /\ post_recordings_stop(1, s, ce)
  \/ \E s \in RecorderIds \cup {AbsentId} : get_recording(1, s)
  \/ Return(1)
  \/ TickUsec
  \/ TickSec

RecorderApiSpec == Init /\ [][RecorderApiNext]_vars

\* listing: a table with sessions of several ages and states, which one
\* client lists through the gateway while another caller borrows the
\* pool's connection
ListIds == {AbsentId + 1, AbsentId + 2}

ListInit ==
  /\ clock = StartClock
  /\ \E f \in [ListIds -> {"active", "ended", "destroyed"}
                             \X {StartClock - UsecPerSec + 1, StartClock} \X {1, 2}] :
       sessions = [s \in ListIds |->
                     [status |-> f[s][1], ttl |-> f[s][3], profile |-> dev,
                      created_at |-> f[s][2],
                      ended_at |-> IF f[s][1] = "active" THEN 0 ELSE clock,
                      info |-> "none"]]
  /\ recordings = <<>>
  /\ metaFiles = {}
  /\ InitPool
  /\ th = [p \in Procs |-> Blank]
  /\ bgTasks = {}
  /\ containers = {}
  /\ redeemCount = [t \in Tokens |-> 0]
  /\ invite = NoInvite
  /\ timers = {}
  /\ purge = NoPurge
  /\ drained = FALSE
  /\ reply = NoReply

ListNext ==
  \/ \E status \in {"None", "active", "ended"} : list_sessions(1, status)
  \/ ListSelect(1)
  \/ ListTimeout(1)
  \/ \E ok \in BOOLEAN : FinishList(1, ok)
  \/ Return(1)
  \/ Borrow(2)
  \/ BorrowEnter(2)
  \/ \E ok \in BOOLEAN : BorrowExit(2, FALSE, ok)
  \/ Return(2)
  \/ TickUsec
  \/ TickSec

ListSpec == ListInit /\ [][ListNext]_vars

\* the provisioner service next to a gateway that works on the same
\* PostgreSQL database and destroys sessions on request
ScheduleNext ==
  \/ ProvisionerNext
  \/ \E s \in ProvisionIds, rc_ok \in BOOLEAN : destroy_session_postgresql(2, s, rc_ok)
  \/ Return(2)

ScheduleSpec == Init /\ [][ScheduleNext]_vars

\* the session store under concurrent writers: gateway handlers that
\* arrive within the same microsecond and recorder calls with ids of
\* their callers' choice
StoreNext ==
  \/ RequestSteps(Procs)
  \/ \E p \in Procs : StoreTimeout(p)
  \/ \E p \in Procs :
       /\ redeemCount[Signed(dev, <<"1">>, IntToStr(StartSec))] < MaxSessions
       /\ HandleRequest(p, Signed(dev, <<"1">>, IntToStr(StartSec)), dev)
  \/ \E p \in Procs, s \in RecorderIds \cup Rows : post_recordings_start(p, s, dev, 1)

StoreSpec == Init /\ [][StoreNext]_vars

\* two gateway handlers that may arrive within the same microsecond,
\* each redeeming, storing and handing its destruction to the
\* background tasks
ArmNext ==
  \/ RequestSteps({1, 2})
  \/ \E p \in {1, 2} : StoreTimeout(p)
  \/ \E p \in {1, 2} :
       /\ redeemCount[Signed(dev, <<"1">>, IntToStr(StartSec))] < MaxSessions
       /\ HandleRequest(p, Signed(dev, <<"1">>, IntToStr(StartSec)), dev)

ArmSpec == Init /\ [][ArmNext]_vars

\* ------------------------------------------------------------------ claims
SessionIdSpace ==
  {StartClock + i * UsecPerSec + u : i \in 0..MaxSec, u \in 0..MaxUsec}

Threads == DOMAIN th

\* C1: every session stored by a successful redeem is eventually marked
\* destroyed once the process keeps running, without any client request.
C1_EventuallyTornDown ==
  \A s \in SessionIdSpace :
    (s \in Rows /\ sessions[s].status = "active")
      ~> (s \in Rows /\ sessions[s].status = "destroyed")

\* C2: no token is answered 200 by /request more than once.
C2_RedeemedAtMostOnce == \A tok \in Tokens : redeemCount[tok] <= 1

\* C9: a redeem whose token fails verification ends at once with 403, and
\* that step neither reaches the provisioner call nor changes the
\* sessions table, the containers or the background tasks.
C9_RejectedRedeemHasNoEffect ==
  [][\A p \in Threads :
       (/\ th[p].pc = "idle"
        /\ th'[p].op = "request"
        /\ ~validate_token(th'[p].token, current_time))
       => (/\ th'[p].pc = "done"
           /\ th'[p].resp = 403
           /\ UNCHANGED <<sessions, containers, bgTasks>>)]_vars

C9_Witness ==
  \E p \in Threads :
    /\ th[p].pc = "done" /\ th[p].op = "request" /\ th[p].resp = 403
    /\ Len(split(th[p].token)) = 6
    /\ sessions = <<>> /\ containers = {} /\ bgTasks = {}

C3_DestroyMarksRegardlessOfOutcome ==
  [][\A p \in Threads :
       (/\ th[p].op = "destroy"
        /\ th[p].pc = "d_script"
        /\ th'[p].pc # "d_script")
       => (/\ th[p].sid \in DOMAIN sessions'
           /\ sessions'[th[p].sid].status = "destroyed")]_vars

\* no other handler is between its arrival and its response
Alone(p) == \A q \in Threads \ {p} : th[q].pc \in {"idle", "done"}

\* C4: a destroy call on an existing session that runs with no other
\* handler in flight, and without the recorder stopping the session, is
\* answered 200 and leaves the status destroyed; and a destroy call that
\* finds the status destroyed goes straight to its answer without
\* running the destroyer and without changing the stored session.
C4_DestroyTwiceInSequence ==
  [][\A p \in Threads :
       /\ (/\ th[p].op = "destroy"
           /\ th[p].pc = "d_release"
           /\ th'[p].pc = "done"
           /\ Alone(p)
           /\ th[p].sid \in Rows
           /\ sessions[th[p].sid].status # "ended")
          => (/\ th'[p].resp = 200
              /\ sessions'[th[p].sid].status = "destroyed")
       /\ (/\ th[p].op = "destroy"
           /\ th[p].pc = "d_select"
           /\ th'[p].pc \notin {"d_select", "done"}
           /\ th[p].sid \in Rows
           /\ sessions[th[p].sid].status = "destroyed")
          => (/\ th'[p].pc = "d_release"
              /\ th'[p].exc = NoExc
              /\ UNCHANGED <<sessions, containers>>)]_vars

\* C5: when two destroy calls for the same existing session have both
\* been answered (neither gave up waiting for a connection, and the
\* recorder did not stop the session), the status is destroyed and both
\* answers are 200.
C5_RacingDestroysEndDestroyed ==
  \A p \in Threads, q \in Threads :
    (/\ p # q
     /\ th[p].pc = "done" /\ th[p].op = "destroy"
     /\ th[q].pc = "done" /\ th[q].op = "destroy"
     /\ th[p].sid = th[q].sid
     /\ th[p].sid \in Rows
     /\ th[p].msg # "TimeoutError" /\ th[q].msg # "TimeoutError"
     /\ sessions[th[p].sid].status # "ended")
    => (/\ sessions[th[p].sid].status = "destroyed"
        /\ th[p].resp = 200
        /\ th[q].resp = 200)

\* C6: a stored status of ended or destroyed is never changed by any step.
C6_TerminalStatusIsFinal ==
  [][\A s \in Rows :
       sessions[s].status \in {"ended", "destroyed"}
       => (/\ s \in DOMAIN sessions'
           /\ sessions'[s].status = sessions[s].status)]_vars

\* threads that hold a connection yielded by get_connection
Holders == {p \in Threads : th[p].conn # NoConn}

\* C7: the connections checked out plus the idle ones never exceed
\* max_connections, the counter equals the number of holders, and no
\* connection held by a thread is in the idle list (nor twice in it).
C7_PoolBounded ==
  /\ active_connections + Len(pool) <= MaxConnections
  /\ active_connections = Cardinality(Holders)
  /\ \A p \in Holders : \A i \in 1..Len(pool) : pool[i] # th[p].conn
  /\ \A i \in 1..Len(pool), j \in 1..Len(pool) : pool[i] = pool[j] => i = j

C7_Witness ==
  /\ active_connections = MaxConnections
  /\ \E p \in Threads : th[p].pc = "b_body" /\ connState[th[p].conn] = "open"
  /\ \E q \in Threads : th[q].pc = "b_wait"

\* C8: while max_connections connections are checked out a waiting
\* caller stays waiting or gives up; it obtains a connection only within
\* the timeout, and gives up only once the timeout has passed, with
\* TimeoutError and with the pool and its counter untouched; and a
\* connection obtained by one caller is held by nobody else.
C8_ExhaustedPoolBlocks ==
  [][\A p \in Threads :
       /\ (th[p].pc = "b_wait" /\ active_connections = MaxConnections)
          => th'[p].pc \in {"b_wait", "done"}
       /\ (th[p].pc = "b_wait" /\ th'[p].pc = "done")
          => (/\ clock - th[p].start >= Timeout * UsecPerSec
              /\ th'[p].resp = 500
              /\ th'[p].msg = "TimeoutError"
              /\ UNCHANGED <<pool, active_connections, connState>>)
       /\ (th[p].pc = "b_wait" /\ th'[p].pc = "b_body")
          => (/\ clock - th[p].start < Timeout * UsecPerSec
              /\ active_connections' = active_connections + 1
              /\ th'[p].conn # NoConn
              /\ \A q \in Threads \ {p} :
                   /\ th'[q].conn # th'[p].conn
                   /\ th'[q] = th[q])]_vars

C8_Witness ==
  /\ active_connections = MaxConnections
  /\ \E p \in Threads :
       th[p].pc = "done" /\ th[p].op = "borrow" /\ th[p].msg = "TimeoutError"
  /\ \E q \in Threads : th[q].pc = "b_wait"

\* the invite has been checked by the gateway, age seconds after it
\* was made by create_invite under the gateway's own secret, for an
\* allow-listed profile
CheckedOwnInvite(age) ==
  /\ invite.stage = "checked"
  /\ invite.origin = "issued"
  /\ invite.secret = invite.key
  /\ invite.profile \in allowed_profiles
  /\ invite.checked_at - invite.issued_at = age

\* C11: a token made by create_invite under the gateway's secret for an
\* allow-listed profile is accepted when checked within the freshness
\* window, and rejected once one character of its signature was changed.
C11_IssuedTokenVerifies ==
  \A age \in 0..FreshnessWindow :
    CheckedOwnInvite(age) => (invite.result = "True" <=> ~invite.tampered)

C11_Witness ==
  /\ CheckedOwnInvite(FreshnessWindow)
  /\ ~invite.tampered
  /\ invite.result = "True"
  /\ invite.profile = secure_shell

Colons(s) == Cardinality({i \in 1..Len(s) : s[i] = ":"})

LastColon(s) == CHOOSE i \in 1..Len(s) : s[i] = ":" /\ \A j \in (i + 1)..Len(s) : s[j] # ":"

\* what the format profile:ttl:timestamp:recipient:notes:signature asks
\* of a token at time now, read off the characters of the token
WellFormedFreshSigned(key, token, now) ==
  /\ Colons(token) = 5
  /\ LET payload == SubSeq(token, 1, LastColon(token) - 1)
         sig == SubSeq(token, LastColon(token) + 1, Len(token))
         f == split(payload)
     IN /\ f[1] \in allowed_profiles
        /\ IntOk(f[2])
        /\ IntOk(f[3])
        /\ now - IntVal(f[3]) <= FreshnessWindow
        /\ sig = HmacHex(key, payload)

\* C12: validate_token answers True exactly for the tokens of six fields
\* with ttl and timestamp that int() reads, an allow-listed profile, an
\* age of at most 300 seconds and the MAC of the first five fields as
\* signature.
C12_ValidOnlyIfAllChecksPass ==
  invite.stage = "checked"
  => (invite.result = "True"
      <=> WellFormedFreshSigned(invite.key, invite.token, invite.checked_at))

C12_Witness ==
  /\ invite.stage = "checked"
  /\ invite.origin = "issued"
  /\ invite.secret = invite.key
  /\ ~invite.tampered
  /\ invite.profile \notin allowed_profiles
  /\ invite.checked_at - invite.issued_at <= FreshnessWindow
  /\ invite.result = "False"

\* C13: an untampered token of the gateway's own secret is rejected at
\* the age of 301 seconds and accepted at the age of 299 seconds.
C13_FreshnessBoundary ==
  /\ CheckedOwnInvite(FreshnessWindow + 1) => invite.result = "False"
  /\ (CheckedOwnInvite(FreshnessWindow - 1) /\ ~invite.tampered) => invite.result = "True"

C13_Witness ==
  /\ CheckedOwnInvite(FreshnessWindow - 1)
  /\ ~invite.tampered
  /\ invite.result = "True"

\* C14: whatever string is checked, validate_token returns True or False
\* and no exception leaves it.
C14_VerifyNeverRaises ==
  invite.stage = "checked" => invite.result \in {"True", "False"}

C14_Witness ==
  /\ invite.stage = "checked"
  /\ invite.origin = "forged"
  /\ Len(split(invite.token)) = 6
  /\ ~IntOk(split(invite.token)[2])
  /\ invite.result = "False"

\* the sessions a purge with this retention has to delete at time now
Purgeable(days, now) ==
  {s \in Rows :
     /\ sessions[s].created_at < now - days * SecPerDay
     /\ sessions[s].status \in {"ended", "destroyed"}}

\* C15: a call of cleanup_old_recordings that completes deletes exactly
\* the rows, and the recording rows, of the ended or destroyed sessions
\* created before now minus the retention, and no other row.
C15_PurgeDeletesExactlyOldTerminal ==
  [][(purge' # purge /\ purge'.outcome = "done")
     => (/\ DOMAIN sessions' = Rows \ Purgeable(purge'.days, purge'.now)
         /\ DOMAIN recordings' = (DOMAIN recordings) \ Purgeable(purge'.days, purge'.now)
         /\ \A s \in DOMAIN sessions' : sessions'[s] = sessions[s])]_vars

\* C16: a call of cleanup_old_recordings in which deleting a file fails
\* still deletes the rows of all the sessions it selected.
C16_FileFailureKeepsRowDeletion ==
  [][(purge' # purge /\ purge'.outcome = "raised")
     => DOMAIN sessions' = Rows \ purge'.selected]_vars

\* C17: when a scheduled destruction has fired and its store update did
\* not fail, the session is marked destroyed whatever the destroyer's
\* exit status was, and no handler's answer is touched by the firing.
C17_ScheduledFireMarksDestroyed ==
  [][\A t \in timers' :
       (t \notin timers /\ t.stage = "finished" /\ t.outcome # "update_failed")
       => (/\ t.sid \in DOMAIN sessions'
           /\ sessions'[t.sid].status = "destroyed"
           /\ th' = th)]_vars

\* C18: once close_all has been called, no waiting caller obtains a
\* connection, and a caller that leaves its with block has its
\* connection closed and not put back into the idle list.
C18_DrainedPoolHandsOutNothing ==
  [][\A p \in Threads :
       drained =>
         /\ th[p].pc = "b_wait" => th'[p].pc # "b_body"
         /\ (th[p].pc = "b_body" /\ th'[p].pc # "b_body")
            => (/\ connState'[th[p].conn] = "closed"
                /\ pool' = pool)]_vars

\* connections that are open
OpenConns == {c \in ConnIds : connState[c] = "open"}

\* connections in the idle list
IdleConns == {pool[i] : i \in 1..Len(pool)}

\* C19: every open connection is either idle in the pool or in the hands
\* of a handler that is inside its with block; a handler outside it
\* holds none, so that with no store operation in progress the count of
\* checked-out connections is 0.
C19_NoConnectionLeaked ==
  /\ \A c \in OpenConns : c \in IdleConns \/ \E p \in Threads : th[p].conn = c
  /\ \A p \in Threads : th[p].pc \in {"idle", "done"} => th[p].conn = NoConn
  /\ (\A p \in Threads : th[p].pc \in {"idle", "done"}) => active_connections = 0

\* C20: an INSERT of a session id that the table already holds leaves
\* the table as it was and ends its handler with an error answer, at the
\* gateway as at the recorder.
C20_DuplicateSessionRejected ==
  [][\A p \in Threads :
       /\ (th[p].pc = "r_store" /\ th'[p].pc = "r_release" /\ th[p].sid \in Rows)
          => (th'[p].exc # NoExc /\ sessions' = sessions)
       /\ (th[p].pc = "r_release" /\ th[p].exc # NoExc /\ th'[p].pc = "done")
          => (th'[p].resp = 500 /\ sessions' = sessions /\ bgTasks' = bgTasks)
       /\ (th[p].pc = "idle" /\ th'[p].op = "start_recording" /\ th'[p].sid \in Rows)
          => (th'[p].resp = 500 /\ sessions' = sessions /\ metaFiles' = metaFiles)]_vars

\* C21: no session ever has more than one row in session_recordings.
C21_AtMostOneRecordingRow ==
  \A s \in DOMAIN recordings : recordings[s] <= 1

\* a listing answers the filter: it holds each stored session of that
\* status once (every session when there is no filter), with the stored
\* status, the most recently created first
ListingOf(r, status, tbl) ==
  /\ {r[i].session_id : i \in DOMAIN r} =
       {s \in DOMAIN tbl : status = "None" \/ tbl[s].status = status}
  /\ \A i, j \in DOMAIN r : r[i].session_id = r[j].session_id => i = j
  /\ \A i \in DOMAIN r : r[i].status = tbl[r[i].session_id].status
  /\ \A i, j \in DOMAIN r : i < j => r[i].created_at >= r[j].created_at

\* C22: the list made by GET /sessions, and the one made by the
\* recorder's list_recordings, which takes no filter, holds exactly the
\* stored sessions the filter asks for, ordered by created_at descending.
C22_ListOrderedAndFiltered ==
  [][/\ \A p \in Threads :
          (th[p].pc = "l_select" /\ th'[p].pc = "l_release")
          => ListingOf(th'[p].sessions, th[p].status, sessions)
     /\ (reply' # reply /\ reply'.op = "list_recordings")
        => ListingOf(reply'.value, "None", sessions)]_vars

\* C23: every active session of a list made by GET /sessions carries a
\* time_left that is the whole seconds of max(0, created_at + ttl - now),
\* now being the moment the list is made; it is never negative and never
\* greater than ttl.
C23_TimeLeftIsRemainingTtl ==
  [][\A p \in Threads :
       (th[p].pc = "l_select" /\ th'[p].pc = "l_release")
       => \A i \in DOMAIN th'[p].sessions :
            LET r == th'[p].sessions[i] IN
            (r.status = "active" /\ r.ttl > 0)
            => /\ Len(r.time_left) = 1
               /\ r.time_left[1] =
                    Max(0, r.created_at + r.ttl * UsecPerSec - clock) \div UsecPerSec
               /\ r.time_left[1] >= 0
               /\ r.time_left[1] <= r.ttl]_vars

\* C24: a redeem answered 200 had a provisioner result with host, port
\* and user and carries the session_id of a stored session; a result
\* without host, port or user is never answered 200.
C24_SuccessCarriesConnectionInfo ==
  \A p \in Threads :
    (th[p].pc = "done" /\ th[p].op = "request" /\ th[p].resp = 200)
    => (th[p].info = "ok" /\ th[p].sid \in Rows)

\* C25: a redeem that has reached the provisioner call is eventually
\* answered, whether the provisioner exits or not.
C25_RedeemTerminates ==
  \A p \in Procs : (th[p].pc = "r_provision") ~> (th[p].pc = "done")

\* C26: a destroy call for a session id that is not in the table never
\* reaches the destroy script and, unless it gave up waiting for a
\* connection, is answered 404.
C26_DestroyUnknownIsNotFound ==
  \A p \in Threads :
    (th[p].op = "destroy" /\ th[p].sid \notin Rows)
    => /\ th[p].pc # "d_script"
       /\ (th[p].pc = "done" /\ th[p].msg # "TimeoutError") => th[p].resp = 404

\* C27: create_invite called with an empty secret produces no token.
C27_EmptySecretIssuesNothing ==
  (invite.origin = "issued" /\ invite.secret = <<>>) => invite.token = <<>>

\* C28: the call of start_recording that stores session s stores it with
\* status active, and a call of stop_recording for a stored session s
\* leaves it with status ended and an ended_at that is set, and returns
\* that row.
C28_StartActiveStopEnded ==
  [][\A s \in RecorderIds :
       /\ (s \notin Rows /\ s \in DOMAIN sessions')
          => (sessions'[s].status = "active" /\ sessions'[s].ended_at = 0)
       /\ (reply' # reply /\ reply'.op = "stop_recording" /\ reply'.sid = s /\ s \in Rows)
          => (/\ sessions'[s].status = "ended"
              /\ sessions'[s].ended_at # 0
              /\ sessions'[s].created_at = sessions[s].created_at
              /\ Len(reply'.value) = 1
              /\ reply'.value[1].status = "ended"
              /\ reply'.value[1].ended_at = sessions'[s].ended_at)]_vars

C28_Witness ==
  /\ reply.op = "stop_recording"
  /\ reply.sid \in Rows
  /\ sessions[reply.sid].status = "ended"
  /\ sessions[reply.sid].ended_at > sessions[reply.sid].created_at
  /\ Len(reply.value) = 1
  /\ reply.value[1].ended_at = sessions[reply.sid].ended_at

\* C29: two redeems that have both been answered 200 carry different
\* session ids.
C29_SuccessfulRedeemsHaveDistinctIds ==
  \A p \in Threads, q \in Threads :
    (/\ p # q
     /\ th[p].pc = "done" /\ th[p].op = "request" /\ th[p].resp = 200
     /\ th[q].pc = "done" /\ th[q].op = "request" /\ th[q].resp = 200)
    => th[p].sid # th[q].sid

\* C30: a scheduled destruction that fires for a session whose status is
\* already ended or destroyed does not run the destroy script and leaves
\* the containers and the table as they are.
C30_FireOnTerminalSkipsDestroyer ==
  [][\A t \in timers' :
       (/\ t \notin timers
        /\ t.stage = "finished"
        /\ t.sid \in Rows
        /\ sessions[t.sid].status \in {"ended", "destroyed"})
       => (/\ t.outcome \notin {"destroy_failed", "update_failed", "destroyed"}
           /\ containers' = containers /\ sessions' = sessions)]_vars

C32_FailedRollbackClosesConnection ==
  [][/\ \A p \in Threads :
          (th[p].pc = "b_body" /\ th'[p].pc = "done" /\ th'[p].info = "rollback_failed")
          => (/\ connState'[th[p].conn] = "closed"
              /\ pool' = pool
              /\ \A i \in 1..Len(pool') : pool'[i] # th[p].conn
              /\ active_connections' = active_connections - 1)
     /\ \A i \in 1..Len(pool') : connState'[pool'[i]] = "open"]_vars

C32_Witness ==
  /\ \E p \in Threads :
       th[p].pc = "done" /\ th[p].op = "borrow" /\ th[p].info = "rollback_failed"
  /\ \E q \in Threads : th[q].pc = "b_body"
  /\ active_connections = 1
  /\ pool = <<>>

\* C33: a stop_recording call, or the step of a destroy call that follows
\* its SELECT, made for a session whose status is already ended or
\* destroyed leaves the stored row as it was, ended_at included, and the
\* destroy call is not answered with an error.
C33_TerminalTransitionIsNoOp ==
  [][\A s \in Rows :
       sessions[s].status \in {"ended", "destroyed"} =>
         /\ (reply' # reply /\ reply'.op = "stop_recording" /\ reply'.sid = s)
            => (s \in DOMAIN sessions' /\ sessions'[s] = sessions[s])
         /\ \A p \in Threads :
              (/\ th[p].op = "destroy" /\ th[p].sid = s
               /\ th[p].pc \in {"d_select", "d_script"}
               /\ th'[p].pc \notin {th[p].pc, "done"})
              => (/\ s \in DOMAIN sessions' /\ sessions'[s] = sessions[s]
                  /\ th'[p].exc = NoExc)]_vars

\* C34: the profile a redeem passes to the provisioner, and the profile
\* of the row it stores, is the profile field of the token it presented.
C34_ProfileIsTheTokensProfile ==
  \A p \in Threads :
    (th[p].op = "request" /\ th[p].pc \in {"r_provision", "r_store", "r_release", "done"}
     /\ th[p].resp # 403)
    => /\ th[p].profile = split(th[p].token)[1]
       /\ (th[p].sid \in Rows /\ th[p].exc = NoExc)
          => sessions[th[p].sid].profile = split(th[p].token)[1]

\* C35: when a redeem whose provisioner succeeded has been answered with
\* an error, its container is not left running without a row in the
\* sessions table (and so without anything that would destroy it).
C35_NoOrphanedContainer ==
  \A p \in Threads :
    (/\ th[p].pc = "done" /\ th[p].op = "request" /\ th[p].resp = 500
     /\ th[p].info \in {"no_host", "ok"})
    => (th[p].sid \in containers => th[p].sid \in Rows)

\* C36: a caller whose with block raised has left it with that error,
\* whatever the rollback of the release did; it never ends as if the
\* body had returned.
C36_BorrowerErrorPropagates ==
  \A p \in Threads :
    (th[p].pc = "done" /\ th[p].op = "borrow" /\ th[p].exc # NoExc)
    => (th[p].resp = th[p].exc /\ th[p].msg = "raised")

\* C37: when a caller leaves its with block and the rollback succeeds,
\* the idle list is shorter than max_connections, and the connection is
\* appended to it, still open.
C37_GoodConnectionGoesBackToPool ==
  [][\A p \in Threads :
       (th[p].pc = "b_body" /\ th'[p].pc = "done" /\ th'[p].info = "rolled_back")
       => (/\ Len(pool) < MaxConnections
           /\ pool' = Append(pool, th[p].conn)
           /\ connState'[th[p].conn] = "open")]_vars

C37_Witness ==
  /\ \E p \in Threads :
       th[p].pc = "done" /\ th[p].op = "borrow" /\ th[p].info = "rolled_back"
  /\ Len(pool) = MaxConnections
  /\ \A i \in 1..Len(pool) : connState[pool[i]] = "open"
  /\ \E q \in Threads : th[q].pc = "b_wait"
  /\ clock > StartClock

\* C38: the DELETE step of cleanup_old_recordings removes the rows of
\* exactly the sessions whose files the call removed, whatever happened
\* to the table between its SELECT and its DELETE.
C38_PurgeDeletesWhatItUnlinked ==
  [][(purge.outcome = "unlinked" /\ purge'.outcome = "deleted")
     => Rows \ DOMAIN sessions' = purge.unlinked]_vars

\* C39: the stop and get endpoints of the recorder answer 404 for a
\* session id that is not in the table.
C39_UnknownRecordingIsNotFound ==
  \A p \in Threads :
    (/\ th[p].pc = "done" /\ th[p].op \in {"stop_recording", "get_recording"}
     /\ th[p].sid \notin Rows)
    => th[p].resp = 404

\* C40: every stored status is active, ended or destroyed, and no step
\* turns a stored status of ended or destroyed into active.
C40_StatusNeverBackToActive ==
  [][/\ \A s \in DOMAIN sessions' : sessions'[s].status \in {"active", "ended", "destroyed"}
     /\ \A s \in Rows :
          (sessions[s].status \in {"ended", "destroyed"} /\ s \in DOMAIN sessions')
          => sessions'[s].status # "active"]_vars

C40_Witness ==
  \E p \in Threads :
    /\ th[p].pc = "done" /\ th[p].op = "destroy" /\ th[p].msg = "Destroy failed"
    /\ th[p].sid \in Rows
    /\ sessions[th[p].sid].status = "ended"

C19_Witness ==
  /\ \A p \in Threads : th[p].pc \in {"idle", "done"}
  /\ \E p \in Threads :
       /\ th[p].pc = "done" /\ th[p].op = "destroy"
       /\ th[p].resp = 500 /\ th[p].msg = "Destroy failed"
  /\ \E q \in Threads :
       /\ th[q].pc = "done" /\ th[q].op = "destroy"
       /\ th[q].msg = "Session already destroyed"
  /\ active_connections = 0

TypeOK ==
  /\ clock \in Nat
  /\ \A s \in Rows : sessions[s].status \in {"active", "ended", "destroyed"}
  /\ active_connections \in Int
  /\ \A p \in DOMAIN th : th[p].pc \in
       {"idle", "done", "r_provision", "r_store", "r_release",
        "d_select", "d_script", "d_release", "b_wait", "b_body", "l_select", "l_release",
        "r_blocked"}
====
